---- MODULE Spec2Model ----
(***************************************************************************)
(* Verification model of MathieuTuli/transformers-practice:                *)
(*   src/src/ctg/data/utils.py      right_shift, extend_vocabulary,        *)
(*                                  load_seq2seq_data                      *)
(*   src/tod/src/tod/train/train.py TrainingAgent                          *)
(* Each component has its own specification (SpecShift, SpecVocab,         *)
(* SpecLoad, SpecAgent) over the shared variables; a component's Init      *)
(* parks the variables of the other components at a fixed idle value.      *)
(***************************************************************************)
EXTENDS Integers, Sequences, FiniteSets, TLC

VARIABLES
    \* ---- right_shift
    start_token_id,   \* argument start_token_id
    pad_token_id,     \* argument pad_token_id: None or Some(v)
    input_ids,        \* argument input_ids: [rows, cols, data]
    shift_out,        \* outcome of the call: [kind, line, grid]
    \* ---- extend_vocabulary
    vocab_fname,      \* argument fname: [suffix, exists]
    vocab_lines,      \* the lines of the file, each a sequence of characters
    added_tokens,     \* what tokenizer.add_tokens has been given so far
    vocab_out,        \* outcome of the call: [kind, line]
    \* ---- load_seq2seq_data
    load_fname,           \* argument fname: [suffix, exists]
    file_records,         \* the records under the file's "data" field
    max_samples,          \* argument max_samples
    max_tgt_length,       \* argument max_tgt_length
    pad_to_max_length,    \* argument pad_to_max_length
    ignore_pad_for_loss,  \* argument ignore_pad_for_loss
    dataset,              \* local dataset
    collator,             \* local collator
    load_pc,              \* position in load_seq2seq_data
    load_log,             \* the library calls made so far, in order
    load_out,             \* outcome of the call: [kind, line]
    \* ---- TrainingAgent
    agent_entry,      \* the method the caller invokes
    gpu,              \* args.train.gpu: None or Some(number of devices)
    clip_grad,        \* args.train.clip_grad
    has_scheduler,    \* self.scheduler is not None
    n_train,          \* len(self.train_loader)
    n_val,            \* len(self.val_loader)
    max_epochs,       \* the number of epochs run_epochs is given
    attrs,            \* the attribute names bound on self
    agent_pc,         \* the agent's state
    epoch,            \* loop variable of run_epochs
    step,             \* batches of the current pass already consumed
    last_step,        \* the last training step: [ran, ops, err]
    passes,           \* the passes completed so far, in order
    agent_err         \* the exception that ended the run: [kind, line]

shiftVars == <<start_token_id, pad_token_id, input_ids, shift_out>>
vocabVars == <<vocab_fname, vocab_lines, added_tokens, vocab_out>>

loadArgs == <<load_fname, file_records, max_samples, max_tgt_length,
              pad_to_max_length, ignore_pad_for_loss>>
loadVars == <<loadArgs, dataset, collator, load_pc, load_log, load_out>>

agentArgs == <<agent_entry, gpu, clip_grad, has_scheduler, n_train, n_val, max_epochs>>
agentVars == <<agentArgs, attrs, agent_pc, epoch, step, last_step, passes, agent_err>>

vars == <<shiftVars, vocabVars, loadVars, agentVars>>

(***************************************************************************)
(* Python values                                                           *)
(***************************************************************************)
\* Python's None for an optional integer; Some(v) is the integer v.
None == <<>>
Some(v) == <<v>>
ValueOf(opt) == opt[1]

\* The label value the loss ignores.
Sentinel == -100

(***************************************************************************)
(* Bounds                                                                  *)
(***************************************************************************)
MaxRows == 2
MaxLen == 2

\* Token ids a grid cell can hold: the sentinel, another negative id, and
\* a real vocabulary id.
CellIds == {Sentinel, -1, 1}
StartIds == {Sentinel, -1, 0, 1}
PadIds == {None} \cup {Some(v) : v \in {Sentinel, -1, 0, 2}}

(***************************************************************************)
(* right_shift  (src/src/ctg/data/utils.py:25-41)                          *)
(***************************************************************************)
\* A tensor of shape (rows, cols): data[r][i], 1-based here, 0-based there.
Tensor(rows, cols, data) == [rows |-> rows, cols |-> cols, data |-> data]

Tensors ==
    UNION { { Tensor(n, l, d) : d \in [1..n -> [1..l -> CellIds]] } :
            <<n, l>> \in (0..MaxRows) \X (0..MaxLen) }

\* input_ids.new_zeros(input_ids.shape)
new_zeros(t) ==
    Tensor(t.rows, t.cols, [r \in 1..t.rows |-> [i \in 1..t.cols |-> 0]])

\* Mutant: the copy is not shifted (column i receives column i).
ShiftCopyUnshifted(z, t) ==
    Tensor(z.rows, z.cols,
           [r \in 1..z.rows |-> [i \in 1..z.cols |->
               IF i >= 2 THEN t.data[r][i] ELSE z.data[r][i]]])

\* shifted_input_ids[..., 1:] = input_ids[..., :-1].clone()
ShiftCopy(z, t) ==
    Tensor(z.rows, z.cols,
           [r \in 1..z.rows |-> [i \in 1..z.cols |->
               IF i >= 2 THEN t.data[r][i - 1] ELSE z.data[r][i]]])

\* Mutant: column 0 keeps the zero it was allocated with.
SetStartSkipped(t, start) == t

\* shifted_input_ids[..., 0] = start_token_id   (needs cols >= 1)
SetStart(t, start) ==
    Tensor(t.rows, t.cols,
           [r \in 1..t.rows |-> [i \in 1..t.cols |->
               IF i = 1 THEN start ELSE t.data[r][i]]])

\* shifted_input_ids.masked_fill_(shifted_input_ids == -100, pad_token_id)
masked_fill(t, masked, value) ==
    Tensor(t.rows, t.cols,
           [r \in 1..t.rows |-> [i \in 1..t.cols |->
               IF t.data[r][i] = masked THEN value ELSE t.data[r][i]]])

\* Mutant: the post-condition is not checked.
all_nonneg_unchecked(t) == TRUE

\* torch.all(shifted_input_ids >= 0).item()
all_nonneg(t) == \A r \in 1..t.rows : \A i \in 1..t.cols : t.data[r][i] >= 0

NoTensor == Tensor(0, 0, <<>>)
Raised(kind, line) == [kind |-> kind, line |-> line, grid |-> NoTensor]
Returned(t) == [kind |-> "return", line |-> 41, grid |-> t]
NotCalled == [kind |-> "idle", line |-> 0, grid |-> NoTensor]

right_shift(start, pad, ids) ==
    LET copied == ShiftCopy(new_zeros(ids), ids)
    IN  IF ids.cols = 0
        THEN \* index 0 of an empty last dimension
             Raised("IndexError", 31)
        ELSE LET started == SetStart(copied, start)
             IN  IF pad = None
                 THEN Raised("AssertionError", 33)
                 ELSE LET filled == masked_fill(started, Sentinel, ValueOf(pad))
                      IN  IF all_nonneg(filled)
                          THEN Returned(filled)
                          ELSE Raised("AssertionError", 38)

IdleShift ==
    /\ start_token_id = 0
    /\ pad_token_id = None
    /\ input_ids = NoTensor
    /\ shift_out = NotCalled

CallRightShift ==
    /\ shift_out.kind = "idle"
    /\ shift_out' = right_shift(start_token_id, pad_token_id, input_ids)
    /\ UNCHANGED <<start_token_id, pad_token_id, input_ids>>
    /\ UNCHANGED <<vocabVars, loadVars, agentVars>>

(***************************************************************************)
(* Files                                                                   *)
(***************************************************************************)
\* A PosixPath as the code reads it: its suffix and whether it exists.
Suffixes == {".json", ".txt", ".JSON", ""}
Paths == [suffix : Suffixes, exists : BOOLEAN]

\* Characters of a line: a letter and a blank.
Chars == {"a", " "}
MaxLineLen == 2
MaxLines == 2

SeqsUpTo(S, n) == UNION { [1..k -> S] : k \in 0..n }

Lines == SeqsUpTo(Chars, MaxLineLen)
Files == SeqsUpTo(Lines, MaxLines)

(***************************************************************************)
(* extend_vocabulary  (src/src/ctg/data/utils.py:72-77)                    *)
(***************************************************************************)
IsSpace(c) == c = " "

\* str.strip(): leading and trailing whitespace removed.
RECURSIVE lstrip(_)
lstrip(line) ==
    IF line # <<>> /\ IsSpace(Head(line)) THEN lstrip(Tail(line)) ELSE line

RECURSIVE rstrip(_)
rstrip(line) ==
    IF line # <<>> /\ IsSpace(line[Len(line)])
    THEN rstrip(SubSeq(line, 1, Len(line) - 1))
    ELSE line

strip(line) == rstrip(lstrip(line))

\* fname.suffix not in set(['.txt']) or not fname.exists()
VocabFileRejected(fname) == fname.suffix \notin {".txt"} \/ ~fname.exists

\* vocab = [line.strip() for line in fname.open('r').readlines()]
VocabOf(lines) == [k \in 1..Len(lines) |-> strip(lines[k])]

IdleVocab ==
    /\ vocab_fname = [suffix |-> "", exists |-> FALSE]
    /\ vocab_lines = <<>>
    /\ added_tokens = <<>>
    /\ vocab_out = [kind |-> "idle", line |-> 0]

CallExtendVocabulary ==
    /\ vocab_out.kind = "idle"
    /\ IF VocabFileRejected(vocab_fname)
       THEN /\ vocab_out' = [kind |-> "ValueError", line |-> 74]
            /\ added_tokens' = added_tokens
       ELSE /\ added_tokens' = added_tokens \o VocabOf(vocab_lines)
            /\ vocab_out' = [kind |-> "return", line |-> 77]
    /\ UNCHANGED <<vocab_fname, vocab_lines>>
    /\ UNCHANGED <<shiftVars, loadVars, agentVars>>

(***************************************************************************)
(* load_seq2seq_data  (src/src/ctg/data/utils.py:80-167)                   *)
(***************************************************************************)
MaxRecords == 2

\* tokenizer.pad_token_id
TokPadId == 0

\* Target texts, as the ids the tokenizer gives them before truncation and
\* padding: empty, short, holding the pad id itself, and longer than any
\* max_tgt_length.
RawTargets == { <<>>, <<3>>, <<3, 4>>, <<0, 3>>, <<3, 4, 3, 4, 4>> }
RawSources == { <<7, 8>> }
TgtLengths == {1, 4}
MaxSrcLength == 4

Records == [source : RawSources, target : RawTargets]
JsonFiles == SeqsUpTo(Records, MaxRecords)

Min(a, b) == IF a < b THEN a ELSE b

\* Mutant: a file is rejected only when both tests fail.
LoadFileRejectedBoth(fname) == fname.suffix \notin {".json"} /\ ~fname.exists

\* fname.suffix not in set(['.json']) or not fname.exists()
LoadFileRejected(fname) == fname.suffix \notin {".json"} \/ ~fname.exists

\* tokenizer(texts, padding='max_length' if pad_to_max_length else False,
\*           max_length=..., truncation=True) on one text
Tokenize(raw, padding, max_length) ==
    LET kept == SubSeq(raw, 1, Min(Len(raw), max_length))
    IN  IF padding
        THEN kept \o [k \in 1..(max_length - Len(kept)) |-> TokPadId]
        ELSE kept

\* Mutant: labels are masked when either option is set.
ShouldMaskEither(pad_to_max, ignore_pad) == pad_to_max \/ ignore_pad

\* if pad_to_max_length and ignore_pad_for_loss
ShouldMask(pad_to_max, ignore_pad) == pad_to_max /\ ignore_pad

\* [(_label if _label != tokenizer.pad_token_id else -100) for _label in label]
MaskPads(label) ==
    [k \in 1..Len(label) |-> IF label[k] # TokPadId THEN label[k] ELSE Sentinel]

\* preprocess, on one example of the batch (prefix is the default '')
preprocess(example, pad_to_max, ignore_pad, tgt_length) ==
    LET inputs == Tokenize(example.source, pad_to_max, MaxSrcLength)
        targets == Tokenize(example.target, pad_to_max, tgt_length)
        labels == IF ShouldMask(pad_to_max, ignore_pad)
                  THEN MaskPads(targets)
                  ELSE targets
    IN  [input_ids |-> inputs, labels |-> labels]

\* Mutant: max_samples = 0 truncates too.
ShouldSelectNonNeg(n) == n >= 0

\* if max_samples > 0
ShouldSelect(n) == n > 0

\* dataset.select(range(min(max_samples, len(dataset))))
select_range(ds, n) == SubSeq(ds, 1, Min(n, Len(ds)))

NoCollator == [kind |-> "none", label_pad_token_id |-> None]

\* The name `model` read at line 164: the parameter is commented out
\* (line 83) and the module binds no such name.
ModelNameBound == FALSE

IdleLoad ==
    /\ load_fname = [suffix |-> "", exists |-> FALSE]
    /\ file_records = <<>>
    /\ max_samples = -1
    /\ max_tgt_length = 1
    /\ pad_to_max_length = FALSE
    /\ ignore_pad_for_loss = TRUE
    /\ dataset = <<>>
    /\ collator = NoCollator
    /\ load_pc = "idle"
    /\ load_log = <<>>
    /\ load_out = [kind |-> "idle", line |-> 0]

\* lines 96-98
LoadValidate ==
    /\ load_pc = "validate"
    /\ IF LoadFileRejected(load_fname)
       THEN /\ load_out' = [kind |-> "ValueError", line |-> 97]
            /\ load_pc' = "done"
       ELSE /\ load_out' = load_out
            /\ load_pc' = "load_dataset"
    /\ UNCHANGED <<loadArgs, dataset, collator, load_log>>
    /\ UNCHANGED <<shiftVars, vocabVars, agentVars>>

\* lines 99-103
LoadDataset ==
    /\ load_pc = "load_dataset"
    /\ dataset' = file_records
    /\ load_log' = Append(load_log, "load_dataset")
    /\ load_pc' = "select"
    /\ UNCHANGED <<loadArgs, collator, load_out>>
    /\ UNCHANGED <<shiftVars, vocabVars, agentVars>>

\* lines 137-138
LoadSelect ==
    /\ load_pc = "select"
    /\ IF ShouldSelect(max_samples)
       THEN /\ dataset' = select_range(dataset, max_samples)
            /\ load_log' = Append(load_log, "select")
       ELSE UNCHANGED <<dataset, load_log>>
    /\ load_pc' = "map"
    /\ UNCHANGED <<loadArgs, collator, load_out>>
    /\ UNCHANGED <<shiftVars, vocabVars, agentVars>>

\* lines 139-146
LoadMap ==
    /\ load_pc = "map"
    /\ dataset' = [k \in 1..Len(dataset) |->
                      preprocess(dataset[k], pad_to_max_length,
                                 ignore_pad_for_loss, max_tgt_length)]
    /\ load_log' = Append(load_log, "map")
    /\ load_pc' = "collate"
    /\ UNCHANGED <<loadArgs, collator, load_out>>
    /\ UNCHANGED <<shiftVars, vocabVars, agentVars>>

\* lines 159-167
LoadCollate ==
    /\ load_pc = "collate"
    /\ IF pad_to_max_length
       THEN /\ collator' = [kind |-> "default_data_collator",
                            label_pad_token_id |-> None]
            /\ load_out' = [kind |-> "return", line |-> 167]
       ELSE IF ~ModelNameBound
       THEN /\ collator' = collator
            /\ load_out' = [kind |-> "NameError", line |-> 164]
       ELSE /\ collator' = [kind |-> "DataCollatorForSeq2Seq",
                            label_pad_token_id |->
                                IF ignore_pad_for_loss THEN Some(Sentinel)
                                ELSE Some(TokPadId)]
            /\ load_out' = [kind |-> "return", line |-> 167]
    /\ load_pc' = "done"
    /\ UNCHANGED <<loadArgs, dataset, load_log>>
    /\ UNCHANGED <<shiftVars, vocabVars, agentVars>>


(***************************************************************************)
(* TrainingAgent  (src/tod/src/tod/train/train.py:22-141)                  *)
(***************************************************************************)
MaxBatches == 2
MaxEpochs == 2

\* Names the class body binds: its attributes (lines 23-32) and its methods.
ClassAttrs ==
    { "config", "train_loader", "val_loader", "model", "optimizer", "scheduler",
      "loss", "output_filename", "checkpoint", "device",
      "reset", "task_setup", "train", "run_epochs", "epoch_iteration", "validate" }

\* Names reset assigns on self (lines 39-67).
ResetAttrs ==
    { "tokenizer", "train_loader", "val_loader", "model", "optimizer", "scheduler",
      "loss", "output_dir", "checkpoint_dir" }

\* Names bound on the bound method self.train: a function has no `gpu`.
MethodAttrs == {}

\* device = 'cuda' (line 32)
device == "cuda"

\* The methods a caller can invoke: main builds the agent and trains; the
\* others are called on an agent whose fields hold what reset assigns.
Entries == {"main", "reset", "train", "run_epochs", "epoch_iteration", "validate"}

NoError == [kind |-> "none", line |-> 0]
Error(kind, line) == [kind |-> kind, line |-> line]
NoStep == [ran |-> FALSE, ops |-> <<>>, err |-> NoError]

\* reset (lines 38-68): the first statement that raises, if any.
reset(bound, g) ==
    IF "tokenizer" \notin bound THEN Error("AttributeError", 39)
    ELSE IF g = None THEN Error("TypeError", 54)
    ELSE IF "get_loss" \notin bound THEN Error("AttributeError", 65)
    ELSE NoError

\* One iteration of the loop of epoch_iteration (lines 99-119): the calls it
\* makes on the model, the optimizer and the scheduler, and how it ends.
epoch_step(g, clip, sched) ==
    LET transfer == g # None /\ device = "cuda"
        input_mask_bound == transfer
    IN  IF transfer /\ "gpu" \notin MethodAttrs
        THEN [ran |-> TRUE, ops |-> <<>>, err |-> Error("AttributeError", 101)]
        ELSE IF ~input_mask_bound
        THEN [ran |-> TRUE, ops |-> <<"zero_grad">>,
              err |-> Error("UnboundLocalError", 106)]
        ELSE [ran |-> TRUE,
              ops |-> <<"zero_grad", "forward">>
                      \o (IF ValueOf(g) > 1 THEN <<"loss.mean">> ELSE <<>>)
                      \o <<"backward">>
                      \o (IF clip > 0 THEN <<"clip_grad_norm">> ELSE <<>>)
                      \o <<"optimizer.step">>
                      \o (IF sched THEN <<"scheduler.step">> ELSE <<>>),
              err |-> NoError]

\* One iteration of the loop of validate (lines 125-135): how it ends.
validate_step(bound, g) ==
    IF "gpu" \notin bound THEN Error("AttributeError", 126)
    ELSE IF g = None THEN Error("UnboundLocalError", 132)
    ELSE NoError

IdleAgent ==
    /\ agent_entry = "none"
    /\ gpu = None
    /\ clip_grad = 0
    /\ has_scheduler = FALSE
    /\ n_train = 0
    /\ n_val = 0
    /\ max_epochs = 0
    /\ attrs = {}
    /\ agent_pc = "IDLE"
    /\ epoch = 0
    /\ step = 0
    /\ last_step = NoStep
    /\ passes = <<>>
    /\ agent_err = NoError

Fail(err) ==
    /\ agent_pc' = "ERROR"
    /\ agent_err' = err

\* main (lines 139-141): __init__ stores args and calls reset; train follows.
CallMain ==
    /\ agent_entry = "main"
    /\ agent_pc = "UNINITIALIZED"
    /\ attrs' = attrs \cup {"args"}
    /\ IF reset(attrs', gpu) # NoError
       THEN Fail(reset(attrs', gpu))
       ELSE Fail(Error("TypeError", 79))
    /\ UNCHANGED <<agentArgs, epoch, step, last_step, passes>>
    /\ UNCHANGED <<shiftVars, vocabVars, loadVars>>

\* reset (lines 38-68) on an agent that has its fields
CallReset ==
    /\ agent_entry = "reset"
    /\ agent_pc = "READY"
    /\ IF reset(attrs, gpu) # NoError
       THEN Fail(reset(attrs, gpu))
       ELSE UNCHANGED <<agent_pc, agent_err>>
    /\ UNCHANGED <<agentArgs, attrs, epoch, step, last_step, passes>>
    /\ UNCHANGED <<shiftVars, vocabVars, loadVars>>

\* train (lines 78-81): self.args is a Namespace, which has no item access
CallTrain ==
    /\ agent_entry = "train"
    /\ agent_pc = "READY"
    /\ Fail(Error("TypeError", 79))
    /\ UNCHANGED <<agentArgs, attrs, epoch, step, last_step, passes>>
    /\ UNCHANGED <<shiftVars, vocabVars, loadVars>>

\* run_epochs (lines 83-87): the head of the loop over range(0, max_epochs)
RunEpochsNext ==
    /\ agent_entry = "run_epochs"
    /\ agent_pc = "READY"
    /\ IF epoch < max_epochs
       THEN /\ agent_pc' = "TRAINING_EPOCH"
            /\ step' = 0
       ELSE /\ agent_pc' = "DONE"
            /\ step' = step
    /\ UNCHANGED <<agentArgs, attrs, epoch, last_step, passes, agent_err>>
    /\ UNCHANGED <<shiftVars, vocabVars, loadVars>>

\* epoch_iteration called by the caller (lines 96-98)
CallEpochIteration ==
    /\ agent_entry = "epoch_iteration"
    /\ agent_pc = "READY"
    /\ agent_pc' = "TRAINING_EPOCH"
    /\ step' = 0
    /\ UNCHANGED <<agentArgs, attrs, epoch, last_step, passes, agent_err>>
    /\ UNCHANGED <<shiftVars, vocabVars, loadVars>>

\* epoch_iteration, one batch of the train loader (lines 99-119)
TrainStep ==
    /\ agent_pc = "TRAINING_EPOCH"
    /\ step < n_train
    /\ last_step' = epoch_step(gpu, clip_grad, has_scheduler)
    /\ IF last_step'.err # NoError
       THEN /\ Fail(last_step'.err)
            /\ step' = step
       ELSE /\ step' = step + 1
            /\ UNCHANGED <<agent_pc, agent_err>>
    /\ UNCHANGED <<agentArgs, attrs, epoch, passes>>
    /\ UNCHANGED <<shiftVars, vocabVars, loadVars>>

\* epoch_iteration returns (line 120); in run_epochs, self.evaluate is
\* looked up next (line 89)
TrainReturn ==
    /\ agent_pc = "TRAINING_EPOCH"
    /\ step = n_train
    /\ passes' = Append(passes, <<"train", epoch>>)
    /\ IF agent_entry = "epoch_iteration"
       THEN /\ agent_pc' = "DONE"
            /\ agent_err' = agent_err
       ELSE IF "evaluate" \notin attrs
       THEN Fail(Error("AttributeError", 89))
       ELSE /\ agent_pc' = "VALIDATING_EPOCH"
            /\ agent_err' = agent_err
    /\ step' = 0
    /\ UNCHANGED <<agentArgs, attrs, epoch, last_step>>
    /\ UNCHANGED <<shiftVars, vocabVars, loadVars>>

\* validate called by the caller (lines 122-124)
CallValidate ==
    /\ agent_entry = "validate"
    /\ agent_pc = "READY"
    /\ agent_pc' = "VALIDATING_EPOCH"
    /\ step' = 0
    /\ UNCHANGED <<agentArgs, attrs, epoch, last_step, passes, agent_err>>
    /\ UNCHANGED <<shiftVars, vocabVars, loadVars>>

\* validate, one batch of the validation loader (lines 125-135)
ValidateStep ==
    /\ agent_pc = "VALIDATING_EPOCH"
    /\ step < n_val
    /\ IF validate_step(attrs, gpu) # NoError
       THEN /\ Fail(validate_step(attrs, gpu))
            /\ step' = step
       ELSE /\ step' = step + 1
            /\ UNCHANGED <<agent_pc, agent_err>>
    /\ UNCHANGED <<agentArgs, attrs, epoch, last_step, passes>>
    /\ UNCHANGED <<shiftVars, vocabVars, loadVars>>

\* validate returns (line 136)
ValidateReturn ==
    /\ agent_pc = "VALIDATING_EPOCH"
    /\ step = n_val
    /\ passes' = Append(passes, <<"validate", epoch>>)
    /\ agent_pc' = "DONE"
    /\ UNCHANGED <<agentArgs, attrs, epoch, step, last_step, agent_err>>
    /\ UNCHANGED <<shiftVars, vocabVars, loadVars>>

(***************************************************************************)
(* Specifications                                                          *)
(***************************************************************************)
InitShift ==
    /\ start_token_id \in StartIds
    /\ pad_token_id \in PadIds
    /\ input_ids \in Tensors
    /\ shift_out = NotCalled
    /\ IdleVocab
    /\ IdleLoad
    /\ IdleAgent

NextShift == CallRightShift

SpecShift == InitShift /\ [][NextShift]_vars

InitVocab ==
    /\ vocab_fname \in Paths
    /\ vocab_lines \in IF vocab_fname.exists THEN Files ELSE {<<>>}
    /\ added_tokens = <<>>
    /\ vocab_out = [kind |-> "idle", line |-> 0]
    /\ IdleShift
    /\ IdleLoad
    /\ IdleAgent

NextVocab == CallExtendVocabulary

SpecVocab == InitVocab /\ [][NextVocab]_vars

InitLoad ==
    /\ load_fname \in Paths
    /\ file_records \in IF load_fname.suffix = ".json" /\ load_fname.exists
                         THEN JsonFiles
                         ELSE {<<>>}
    /\ max_samples \in -1..(MaxRecords + 1)
    /\ max_tgt_length \in TgtLengths
    /\ pad_to_max_length \in BOOLEAN
    /\ ignore_pad_for_loss \in BOOLEAN
    /\ dataset = <<>>
    /\ collator = NoCollator
    /\ load_pc = "validate"
    /\ load_log = <<>>
    /\ load_out = [kind |-> "idle", line |-> 0]
    /\ IdleShift
    /\ IdleVocab
    /\ IdleAgent

NextLoad ==
    \/ LoadValidate
    \/ LoadDataset
    \/ LoadSelect
    \/ LoadMap
    \/ LoadCollate

SpecLoad == InitLoad /\ [][NextLoad]_vars

InitAgent ==
    /\ agent_entry \in Entries
    /\ gpu \in {None, Some(1), Some(2)}
    /\ clip_grad \in {0, 1}
    /\ has_scheduler \in BOOLEAN
    /\ n_train \in 0..MaxBatches
    /\ n_val \in 0..MaxBatches
    /\ max_epochs \in 0..MaxEpochs
    /\ attrs = IF agent_entry = "main"
               THEN ClassAttrs
               ELSE ClassAttrs \cup {"args"} \cup ResetAttrs
    /\ agent_pc = IF agent_entry = "main" THEN "UNINITIALIZED" ELSE "READY"
    /\ epoch = 0
    /\ step = 0
    /\ last_step = NoStep
    /\ passes = <<>>
    /\ agent_err = NoError
    /\ IdleShift
    /\ IdleVocab
    /\ IdleLoad

NextAgent ==
    \/ CallMain
    \/ CallReset
    \/ CallTrain
    \/ RunEpochsNext
    \/ CallEpochIteration
    \/ TrainStep
    \/ TrainReturn
    \/ CallValidate
    \/ ValidateStep
    \/ ValidateReturn

SpecAgent == InitAgent /\ [][NextAgent]_vars

(***************************************************************************)
(* Claims about right_shift, checked under SpecShift                       *)
(***************************************************************************)
ShiftReturned == shift_out.kind = "return"
ShiftCalled == shift_out.kind # "idle"
ShiftAsserted == shift_out.kind = "AssertionError"

\* What a cell of the shifted grid becomes under sentinel replacement.
Replaced(v) == IF v = Sentinel THEN ValueOf(pad_token_id) ELSE v

\* C1: when right_shift returns for a grid of length L >= 1, the output has
\* the shape of input_ids and every column i >= 1 holds column i-1 of the
\* input, with pad_token_id where that input cell is -100.
C1_ShiftedByOne ==
    (ShiftReturned /\ input_ids.cols >= 1) =>
        /\ shift_out.grid.rows = input_ids.rows
        /\ shift_out.grid.cols = input_ids.cols
        /\ DOMAIN shift_out.grid.data = 1..input_ids.rows
        /\ \A r \in 1..input_ids.rows :
              /\ DOMAIN shift_out.grid.data[r] = 1..input_ids.cols
              /\ \A i \in 2..input_ids.cols :
                    shift_out.grid.data[r][i] =
                        IF input_ids.data[r][i - 1] = Sentinel
                        THEN ValueOf(pad_token_id)
                        ELSE input_ids.data[r][i - 1]

\* A returned grid of two rows and two columns in which one shifted-in cell
\* was the sentinel and another was a real id.
C1_Witness ==
    /\ ShiftReturned
    /\ input_ids.rows >= 2
    /\ input_ids.cols >= 2
    /\ input_ids.data[1][1] = Sentinel
    /\ input_ids.data[2][1] = 1
    /\ shift_out.grid.data[1][2] = ValueOf(pad_token_id)
    /\ shift_out.grid.data[2][2] = 1

\* C2 (as stated): in every returned grid, column 0 of every row equals
\* start_token_id, also when start_token_id is the sentinel -100.
C2_Column0IsStart ==
    ShiftReturned =>
        \A r \in 1..shift_out.grid.rows : shift_out.grid.data[r][1] = start_token_id

\* C2 (amended): in every returned grid, column 0 of every row equals
\* start_token_id, except that it equals pad_token_id when start_token_id
\* is the sentinel -100.
C2_Column0IsStartOrPad ==
    ShiftReturned =>
        \A r \in 1..shift_out.grid.rows :
            shift_out.grid.data[r][1] =
                IF start_token_id = Sentinel
                THEN ValueOf(pad_token_id)
                ELSE start_token_id

\* A returned grid with at least one row whose start id was the sentinel.
C2_Witness ==
    /\ ShiftReturned
    /\ shift_out.grid.rows >= 1
    /\ start_token_id = Sentinel
    /\ shift_out.grid.data[1][1] = ValueOf(pad_token_id)

\* Some value of the shifted grid (start id in column 0, input columns
\* 0..L-2 behind it) is still negative after sentinel replacement.
StillNegative ==
    /\ pad_token_id # None
    /\ input_ids.rows >= 1
    /\ input_ids.cols >= 1
    /\ \/ Replaced(start_token_id) < 0
       \/ \E r \in 1..input_ids.rows : \E i \in 1..(input_ids.cols - 1) :
              Replaced(input_ids.data[r][i]) < 0

ReturnedGridIsClean ==
    ShiftReturned =>
        \A r \in 1..shift_out.grid.rows : \A i \in 1..shift_out.grid.cols :
            /\ shift_out.grid.data[r][i] >= 0
            /\ shift_out.grid.data[r][i] # Sentinel

\* C3 (as stated): a returned grid holds only non-negative values and never
\* the sentinel; a call with pad_token_id None, or one that leaves a negative
\* value after sentinel replacement, fails with an assertion.
C3_NonNegativeOrAsserts ==
    /\ ReturnedGridIsClean
    /\ (ShiftCalled /\ (pad_token_id = None \/ StillNegative)) => ShiftAsserted

\* C3 (amended): the same for grids of length L >= 1; a grid of length 0 has
\* no column 0 to write and the call fails before either assertion.
C3_NonNegativeOrAssertsNonEmpty ==
    /\ ReturnedGridIsClean
    /\ (ShiftCalled /\ input_ids.cols >= 1 /\ (pad_token_id = None \/ StillNegative))
           => ShiftAsserted

\* The post-condition assertion fired on a negative id that is not the sentinel.
C3_Witness ==
    /\ ShiftAsserted
    /\ shift_out.line = 38
    /\ pad_token_id = Some(0)
    /\ start_token_id = 1
    /\ input_ids.rows >= 1
    /\ input_ids.cols >= 2
    /\ input_ids.data[1][1] = -1

(***************************************************************************)
(* Claims about extend_vocabulary, checked under SpecVocab                 *)
(***************************************************************************)
\* len(line) > 0 and not line.isspace(), the test read_lines applies
NonEmptyLine(line) == line # <<>> /\ \E k \in 1..Len(line) : ~IsSpace(line[k])

Range(f) == { f[k] : k \in DOMAIN f }

\* C10: extend_vocabulary fails with the invalid-input error, adding no
\* token, when the file is missing or is not a .txt file; otherwise the set
\* of tokens it passes to the tokenizer is exactly the non-empty lines of the
\* file, and no empty or whitespace-only line is passed as a token.
C10_AddsExactlyNonEmptyLines ==
    /\ (vocab_out.kind # "idle" /\ (vocab_fname.suffix # ".txt" \/ ~vocab_fname.exists))
           => (vocab_out.kind = "ValueError" /\ added_tokens = <<>>)
    /\ vocab_out.kind = "return" =>
           /\ Range(added_tokens) =
                  { strip(vocab_lines[k]) :
                        k \in { j \in 1..Len(vocab_lines) : NonEmptyLine(vocab_lines[j]) } }
           /\ <<>> \notin Range(added_tokens)

(***************************************************************************)
(* Claims about load_seq2seq_data, checked under SpecLoad                  *)
(***************************************************************************)
Mapped == load_pc \in {"collate", "done"} /\ "map" \in Range(load_log)

\* The records preprocessing is applied to.
ExpectedSelection ==
    IF max_samples > 0
    THEN [k \in 1..Min(max_samples, Len(file_records)) |-> file_records[k]]
    ELSE file_records

\* The tokenized target ids of record k of the selection.
TargetIds(k) == Tokenize(ExpectedSelection[k].target, pad_to_max_length, max_tgt_length)

\* C4: with pad_to_max_length and ignore_pad_for_loss both true, a target
\* position holding the tokenizer's pad id is stored in labels as -100 and
\* every other position unchanged; with either option false, labels are the
\* tokenized target ids unchanged.
C4_LabelsMaskPads ==
    Mapped =>
        \A k \in 1..Len(dataset) :
            /\ Len(dataset[k].labels) = Len(TargetIds(k))
            /\ \A i \in 1..Len(TargetIds(k)) :
                  dataset[k].labels[i] =
                      IF pad_to_max_length /\ ignore_pad_for_loss
                         /\ TargetIds(k)[i] = TokPadId
                      THEN Sentinel
                      ELSE TargetIds(k)[i]

\* The example of the spec: target tokens [3,4,0,0] give labels [3,4,-100,-100].
C4_Witness ==
    /\ Mapped
    /\ pad_to_max_length
    /\ ignore_pad_for_loss
    /\ Len(dataset) >= 1
    /\ TargetIds(1) = <<3, 4, 0, 0>>
    /\ dataset[1].labels = <<3, 4, Sentinel, Sentinel>>

\* C7: load_seq2seq_data fails with the invalid-input error when the file
\* has no .json suffix or does not exist, before any dataset loading,
\* selection or preprocessing call is made; an existing .json file raises no
\* such error.
C7_RejectsBadFileFirst ==
    /\ (load_pc # "validate" /\ (load_fname.suffix # ".json" \/ ~load_fname.exists))
           => /\ load_out.kind = "ValueError"
              /\ load_pc = "done"
              /\ load_log = <<>>
              /\ dataset = <<>>
    /\ (load_fname.suffix = ".json" /\ load_fname.exists)
           => load_out.kind # "ValueError"
    /\ load_out.kind = "ValueError" => load_log = <<>>

\* A .json path that does not exist was rejected with nothing loaded.
C7_Witness ==
    /\ load_out.kind = "ValueError"
    /\ load_fname.suffix = ".json"
    /\ ~load_fname.exists
    /\ load_log = <<>>

\* C8: with pad_to_max_length false the call completes, returns the dataset
\* and selects the label-aware padding collator padding labels with -100,
\* whatever ignore_pad_for_loss is; with pad_to_max_length true it selects
\* the plain stacking collator.
C8_CollatorChoice ==
    load_pc = "done" /\ load_out.kind # "ValueError" =>
        IF pad_to_max_length
        THEN /\ load_out.kind = "return"
             /\ collator.kind = "default_data_collator"
        ELSE /\ load_out.kind = "return"
             /\ collator.kind = "DataCollatorForSeq2Seq"
             /\ collator.label_pad_token_id = Some(Sentinel)

\* C9: max_samples <= 0 leaves the records unchanged and max_samples = k > 0
\* keeps exactly the first min(k, len) records in their order; the
\* truncation is done before preprocessing, which keeps the record count.
C9_MaxSamplesTruncates ==
    /\ load_pc = "map" =>
           /\ dataset = ExpectedSelection
           /\ Len(dataset) = IF max_samples > 0
                             THEN Min(max_samples, Len(file_records))
                             ELSE Len(file_records)
           /\ "map" \notin Range(load_log)
    /\ Mapped =>
           /\ Len(dataset) = Len(ExpectedSelection)
           /\ \A k \in 1..Len(dataset) :
                  dataset[k] = preprocess(ExpectedSelection[k], pad_to_max_length,
                                          ignore_pad_for_loss, max_tgt_length)

\* Two different records truncated to the first one, not yet preprocessed.
C9_Witness ==
    /\ load_pc = "map"
    /\ max_samples = 1
    /\ Len(file_records) = 2
    /\ file_records[1] # file_records[2]
    /\ dataset = <<file_records[1]>>
    /\ load_log = <<"load_dataset", "select">>

(***************************************************************************)
(* Claims about TrainingAgent, checked under SpecAgent                     *)
(***************************************************************************)
\* One training pass then one validation pass for each of n epochs.
ExpectedPasses(n) ==
    [k \in 1..(2 * n) |->
        IF k % 2 = 1 THEN <<"train", (k - 1) \div 2>> ELSE <<"validate", (k - 2) \div 2>>]

\* C5: after reset, run_epochs performs for each of max_epochs epochs one
\* full training pass and then one full validation pass, in that order, and
\* the run reaches the done state without error.
C5_EpochsTrainThenValidate ==
    agent_entry = "run_epochs" =>
        /\ agent_pc # "ERROR"
        /\ agent_pc = "DONE" => passes = ExpectedPasses(max_epochs)

\* The calls of one training step, in the order the contract gives.
ExpectedStepOps ==
    <<"zero_grad", "forward">>
    \o (IF gpu # None /\ ValueOf(gpu) > 1 THEN <<"loss.mean">> ELSE <<>>)
    \o <<"backward">>
    \o (IF clip_grad > 0 THEN <<"clip_grad_norm">> ELSE <<>>)
    \o <<"optimizer.step">>
    \o (IF has_scheduler THEN <<"scheduler.step">> ELSE <<>>)

\* C6: every training step zeroes the gradients, runs the forward pass with
\* a defined attention mask, averages the loss on several devices, runs the
\* backward pass, clips when the threshold is > 0, steps the optimizer and
\* steps the scheduler when there is one, in this order and without error.
C6_StepOrder ==
    last_step.ran =>
        /\ last_step.err = NoError
        /\ last_step.ops = ExpectedStepOps

====
